---- MODULE Spec2Model ----
(***************************************************************************)
(* Model of the go-logger facade (package logger, logger.go): the          *)
(* process-wide logger Log, the stored identity serviceName/envName, zap's *)
(* ambient (global) logger, and the operations Init, New and Sync.         *)
(*                                                                         *)
(* Strings are sequences of one-character strings, so that                 *)
(* strings.TrimSpace and strings.ToLower are computed, not assumed.        *)
(* Loggers live in a heap of immutable-by-construction objects; Log, the   *)
(* ambient logger and every logger handed to a caller are addresses.       *)
(***************************************************************************)
EXTENDS Integers, Sequences, FiniteSets, TLC

\* Number of logger objects the heap can hold (zap allocates without bound).
MaxAddr == 6

\* Number of calls the concurrent goroutines make in all.
MaxConcCalls == 2

----------------------------------------------------------------------------
\* String literals of the program and of the inputs.

defaultLevel == <<"i","n","f","o">>
defaultService == <<"u","n","k","n","o","w","n","-","s","e","r","v","i","c","e">>
defaultEnv == <<"d","e","v">>

KeyService == <<"s","e","r","v","i","c","e">>
KeyEnv == <<"e","n","v">>
KeyModule == <<"m","o","d","u","l","e">>

Empty == << >>

\* Level arguments tried: "", " ", "Error ", "loud".
LevelArgs == { Empty, <<" ">>, <<"E","r","r","o","r"," ">>, <<"l","o","u","d">> }

\* Values of the LOG_LEVEL environment variable tried: unset/"", " DEBUG", "off".
EnvValues == { Empty, <<" ","D","E","B","U","G">>, <<"o","f","f">> }

\* (service, env) arguments tried: ("", ""), (" ", "prod"), ("api ", ""),
\* ("api ", "prod"); the code keeps the trailing blank of "api ".
IdentityArgs ==
    { <<Empty, Empty>>,
      << <<" ">>, <<"p","r","o","d">> >>,
      << <<"a","p","i"," ">>, Empty >>,
      << <<"a","p","i"," ">>, <<"p","r","o","d">> >> }

\* Module arguments tried: "", "http".
Modules == { Empty, <<"h","t","t","p">> }

----------------------------------------------------------------------------
\* strings.TrimSpace, strings.ToLower

WhiteSpace == { " ", "\t", "\n", "\r" }

RECURSIVE TrimLeft(_)
TrimLeft(s) ==
    IF s = << >> THEN << >>
    ELSE IF Head(s) \in WhiteSpace THEN TrimLeft(Tail(s))
    ELSE s

RECURSIVE TrimRight(_)
TrimRight(s) ==
    IF s = << >> THEN << >>
    ELSE IF s[Len(s)] \in WhiteSpace THEN TrimRight(SubSeq(s, 1, Len(s) - 1))
    ELSE s

TrimSpace(s) == TrimRight(TrimLeft(s))

UpperLetters == <<"A","B","C","D","E","F","G","H","I","J","K","L","M","N","O","P","Q","R","S","T","U","V","W","X","Y","Z">>
LowerLetters == <<"a","b","c","d","e","f","g","h","i","j","k","l","m","n","o","p","q","r","s","t","u","v","w","x","y","z">>

Letters == 1..Len(UpperLetters)

\* unicode.ToLower / unicode.ToUpper on the letters of the inputs.
LowerOf == [c \in {UpperLetters[i] : i \in Letters} |-> LowerLetters[CHOOSE i \in Letters : UpperLetters[i] = c]]
UpperOf == [c \in {LowerLetters[i] : i \in Letters} |-> UpperLetters[CHOOSE i \in Letters : LowerLetters[i] = c]]

LowerChar(c) == IF c \in DOMAIN LowerOf THEN LowerOf[c] ELSE c

UpperChar(c) == IF c \in DOMAIN UpperOf THEN UpperOf[c] ELSE c

ToLower(s) == [i \in 1..Len(s) |-> LowerChar(s[i])]

----------------------------------------------------------------------------
\* zapcore.Level.UnmarshalText: the severity a text names, or no severity.

NoLevel == "none"

LevelNames ==
    { <<"debug", <<"d","e","b","u","g">> >>,
      <<"info", <<"i","n","f","o">> >>,
      <<"warn", <<"w","a","r","n">> >>,
      <<"error", <<"e","r","r","o","r">> >>,
      <<"dpanic", <<"d","p","a","n","i","c">> >>,
      <<"panic", <<"p","a","n","i","c">> >>,
      <<"fatal", <<"f","a","t","a","l">> >> }

ToUpper(s) == [i \in 1..Len(s) |-> UpperChar(s[i])]

\* The texts unmarshalText accepts: each name in lower case and in upper case.
LevelTexts == { <<n[1], n[2]>> : n \in LevelNames } \cup { <<n[1], ToUpper(n[2])>> : n \in LevelNames }

\* unmarshalText: the lower-case and the upper-case names; "" reads as info.
unmarshalText(text) ==
    IF text = << >> THEN "info"
    ELSE IF \E n \in LevelTexts : text = n[2]
    THEN (CHOOSE n \in LevelTexts : text = n[2])[1]
    ELSE NoLevel

\* UnmarshalText tries the text, then its lower-case form.
UnmarshalText(text) ==
    LET exact == unmarshalText(text)
    IN IF exact # NoLevel THEN exact ELSE unmarshalText(ToLower(text))

----------------------------------------------------------------------------
\* Init's resolution steps.

\* Variant: LOG_LEVEL consulted before the argument.
ResolveLevelStrEnvFirst(level, envLevel) ==
    LET a == TrimSpace(envLevel)
        b == IF a = << >> THEN TrimSpace(level) ELSE a
    IN IF b = << >> THEN defaultLevel ELSE b

\* lvlStr: explicit arg > LOG_LEVEL > default.
ResolveLevelStr(level, envLevel) ==
    LET a == TrimSpace(level)
        b == IF a = << >> THEN TrimSpace(envLevel) ELSE a
    IN IF b = << >> THEN defaultLevel ELSE b

\* zapLevel, or NoLevel when Init returns the invalid-level error.
ParseLevel(level, envLevel) == UnmarshalText(ToLower(ResolveLevelStr(level, envLevel)))

\* Variant: the service argument taken as it is, no default.
ResolveServiceVerbatim(service) == service

ResolveService(service) == IF TrimSpace(service) = << >> THEN defaultService ELSE service

ResolveEnv(env) == IF TrimSpace(env) = << >> THEN defaultEnv ELSE env

----------------------------------------------------------------------------
\* Go values: string headers, errors, logger objects, the heap.

\* A Go string is two words (data pointer, length); ptr and len name the
\* string each word was written from. A torn header has ptr # len.
Hdr(s) == [ptr |-> s, len |-> s]

Torn == <<"<torn>">>

StrVal(h) == IF h.ptr = h.len THEN h.ptr ELSE Torn

\* An error is its Unwrap chain, outermost first; nil is the empty chain.
NilErr == << >>

ErrorsIs(err, target) == \E i \in 1..Len(err) : err[i] = target

InvalidLevelErr == <<"invalid log level", "unrecognized level">>

PanicNilDeref == <<"panic: nil pointer dereference">>

NilAddr == 0

\* encCfg of Init: production encoder config with the keys Init fixes.
EncoderConfig ==
    [format |-> "json", time |-> "RFC3339", TimeKey |-> "ts", MessageKey |-> "msg",
     CallerKey |-> "caller", LevelKey |-> "level"]

\* Variant: the core built at the default severity, not at zapLevel.
NewZapAtInfo(zapLevel) ==
    [level |-> "info", enc |-> EncoderConfig, sink |-> "stdout",
     caller |-> TRUE, stackFrom |-> "error", fields |-> << >>]

\* z: zap.New(core, AddCaller, AddStacktrace(ErrorLevel)) over stdout.
NewZap(zapLevel) ==
    [level |-> zapLevel, enc |-> EncoderConfig, sink |-> "stdout",
     caller |-> TRUE, stackFrom |-> "error", fields |-> << >>]

\* The heap is the sequence of the objects allocated so far; an address is
\* an index into it. A new object: the heap with it, and its address.
Alloc(h, obj) == [heap |-> Append(h, obj), addr |-> Len(h) + 1]

\* Variant: With appends to the receiver and returns it.
WithInPlace(h, a, kvs) == [heap |-> [h EXCEPT ![a].fields = @ \o kvs], addr |-> a]

\* (*Logger).With / (*SugaredLogger).With: a clone with the fields appended;
\* the receiver is not changed.
With(h, a, kvs) == Alloc(h, [h[a] EXCEPT !.fields = @ \o kvs])

\* What a caller observes of a logger: its configuration and its fields.
Config(obj) == [level |-> obj.level, enc |-> obj.enc, sink |-> obj.sink, caller |-> obj.caller, stackFrom |-> obj.stackFrom]

\* The field value stored under key k, or the set of all of them.
FieldValues(obj, k) == { obj.fields[i][2] : i \in { j \in 1..Len(obj.fields) : obj.fields[j][1] = k } }

FieldKeys(obj) == [i \in 1..Len(obj.fields) |-> obj.fields[i][1]]

----------------------------------------------------------------------------
\* State.

VARIABLES
    Log,          \* var Log *zap.SugaredLogger: an address, or NilAddr
    serviceName,  \* var serviceName string (a header)
    envName,      \* var envName string (a header)
    ambient,      \* zap's global logger, set by zap.ReplaceGlobals; NilAddr is zap's initial no-op logger
    heap,         \* the logger objects allocated so far
    LOG_LEVEL,    \* the environment variable LOG_LEVEL ("" also when unset)
    held,         \* the loggers New has returned to the one-at-a-time callers
    last,         \* the last completed call of the one-at-a-time callers: arguments and results
    pc,           \* concurrent callers: the line each goroutine is at
    loc           \* concurrent callers: each goroutine's arguments and locals

vars == <<Log, serviceName, envName, ambient, heap, LOG_LEVEL, held, last, pc, loc>>

\* The process-wide state Init works on, as one record.
Globals == [Log |-> Log, serviceName |-> serviceName, envName |-> envName, ambient |-> ambient, heap |-> heap]

Procs == {"g1", "g2"}

NoCall == [op |-> "none"]

NoLocals == [op |-> "none", calls |-> 0]

Init ==
    /\ Log = NilAddr
    /\ serviceName = Hdr(Empty)
    /\ envName = Hdr(Empty)
    /\ ambient = NilAddr
    /\ heap = << >>
    /\ LOG_LEVEL \in EnvValues
    /\ held = {}
    /\ last = NoCall
    /\ pc = [p \in Procs |-> "idle"]
    /\ loc = [p \in Procs |-> NoLocals]

----------------------------------------------------------------------------
\* The operations, each run to completion (one caller at a time).

\* Line 61: serviceName, envName = service, env.
StoreIdentity(g, service, env) ==
    [g EXCEPT !.serviceName = Hdr(service), !.envName = Hdr(env)]

\* Variant: the fields are added to the current Log when there is one.
BuildLoggersOnLog(g, zapLevel) ==
    LET z == Alloc(g.heap, NewZap(zapLevel))
        l == With(z.heap, IF g.Log # NilAddr THEN g.Log ELSE z.addr,
                  << <<KeyService, StrVal(g.serviceName)>>, <<KeyEnv, StrVal(g.envName)>> >>)
    IN [heap |-> l.heap, z |-> z.addr, l |-> l.addr]

\* Lines 63-84: z over a new core at zapLevel, and l = z.Sugar().With(...) with
\* the values of the globals serviceName and envName.
BuildLoggers(g, zapLevel) ==
    LET z == Alloc(g.heap, NewZap(zapLevel))
        l == With(z.heap, z.addr, << <<KeyService, StrVal(g.serviceName)>>,
                                     <<KeyEnv, StrVal(g.envName)>> >>)
    IN [heap |-> l.heap, z |-> z.addr, l |-> l.addr]

\* Variant: zap.ReplaceGlobals is not called.
PublishLogOnly(g, b) == [g EXCEPT !.heap = b.heap, !.Log = b.l]

\* Lines 87-88: Log = l; zap.ReplaceGlobals(z).
Publish(g, b) == [g EXCEPT !.heap = b.heap, !.Log = b.l, !.ambient = b.z]

\* Variant: the identity is stored before the level is parsed.
InitFnStoreFirst(g, level, service, env, envLevel) ==
    LET zapLevel == ParseLevel(level, envLevel)
        g1 == StoreIdentity(g, ResolveService(service), ResolveEnv(env))
    IN IF zapLevel = NoLevel
       THEN [g |-> g1, err |-> InvalidLevelErr]
       ELSE [g |-> Publish(g1, BuildLoggers(g1, zapLevel)), err |-> NilErr]

\* func Init(level, service, env string) error, on globals g with LOG_LEVEL = envLevel:
\* the globals it leaves and the error it returns.
InitFn(g, level, service, env, envLevel) ==
    LET zapLevel == ParseLevel(level, envLevel)
    IN IF zapLevel = NoLevel
       THEN [g |-> g, err |-> InvalidLevelErr]
       ELSE LET g1 == StoreIdentity(g, ResolveService(service), ResolveEnv(env))
            IN [g |-> Publish(g1, BuildLoggers(g1, zapLevel)), err |-> NilErr]

\* Variant: the lazy initialization passes an empty level.
ensureDefaultInitEmptyLevel(g, envLevel) ==
    IF g.Log # NilAddr THEN g
    ELSE InitFn(g, Empty, defaultService, defaultEnv, envLevel).g

\* func ensureDefaultInit(): the globals it leaves (Init's error is dropped).
ensureDefaultInit(g, envLevel) ==
    IF g.Log # NilAddr THEN g
    ELSE InitFn(g, defaultLevel, defaultService, defaultEnv, envLevel).g

\* Variant: New keeps the child as Log.
NewFnKeepsChild(g, module, envLevel) ==
    LET g1 == ensureDefaultInit(g, envLevel)
    IN IF g1.Log = NilAddr
       THEN [g |-> g1, ret |-> NilAddr, err |-> PanicNilDeref]
       ELSE LET c == With(g1.heap, g1.Log, << <<KeyModule, module>> >>)
            IN [g |-> [g1 EXCEPT !.heap = c.heap, !.Log = c.addr], ret |-> c.addr, err |-> NilErr]

\* func New(module string) *zap.SugaredLogger: the globals it leaves, the
\* logger it returns, and the panic of Log.With on a nil Log.
NewFn(g, module, envLevel) ==
    LET g1 == ensureDefaultInit(g, envLevel)
    IN IF g1.Log = NilAddr
       THEN [g |-> g1, ret |-> NilAddr, err |-> PanicNilDeref]
       ELSE LET c == With(g1.heap, g1.Log, << <<KeyModule, module>> >>)
            IN [g |-> [g1 EXCEPT !.heap = c.heap], ret |-> c.addr, err |-> NilErr]

\* What Log.Sync() can return: nil, EPIPE bare or wrapped by the file layer,
\* and other write failures.
SyncOutcomes ==
    { NilErr, <<"EPIPE">>, <<"sync /dev/stdout", "EPIPE">>, <<"sync /dev/stdout", "EIO">> }

NotCalled == <<"not called">>

\* Variant: Sync returns the engine's error as it is.
SyncFnNoEpipe(g, engineErr) ==
    IF g.Log = NilAddr THEN [err |-> NilErr, engine |-> NotCalled]
    ELSE [err |-> engineErr, engine |-> engineErr]

\* func Sync() error, given what the engine's flush returns.
SyncFn(g, engineErr) ==
    IF g.Log = NilAddr THEN [err |-> NilErr, engine |-> NotCalled]
    ELSE IF engineErr # NilErr
         THEN IF ErrorsIs(engineErr, "EPIPE")
              THEN [err |-> NilErr, engine |-> engineErr]
              ELSE [err |-> engineErr, engine |-> engineErr]
         ELSE [err |-> NilErr, engine |-> engineErr]

SetGlobals(g) ==
    /\ Log' = g.Log
    /\ serviceName' = g.serviceName
    /\ envName' = g.envName
    /\ ambient' = g.ambient
    /\ heap' = g.heap

\* The heap has room for n more objects.
Room(n) == Len(heap) + n <= MaxAddr

Initialize ==
    \E level \in LevelArgs :
        /\ ParseLevel(level, LOG_LEVEL) # NoLevel => Room(2)
        /\ \E id \in IdentityArgs :
            LET r == InitFn(Globals, level, id[1], id[2], LOG_LEVEL)
            IN /\ SetGlobals(r.g)
               /\ last' = [op |-> "Init", level |-> level, service |-> id[1], env |-> id[2],
                            err |-> r.err, before |-> Log]
               /\ UNCHANGED <<LOG_LEVEL, held, pc, loc>>

GetModuleLogger ==
    \E module \in Modules :
        LET r == NewFn(Globals, module, LOG_LEVEL)
        IN /\ Len(r.g.heap) <= MaxAddr
           /\ SetGlobals(r.g)
           /\ last' = [op |-> "New", module |-> module, ret |-> r.ret, err |-> r.err,
                        before |-> Log]
           /\ held' = IF r.ret = NilAddr THEN held ELSE held \cup {r.ret}
           /\ UNCHANGED <<LOG_LEVEL, pc, loc>>

Flush ==
    \E engineErr \in SyncOutcomes :
        LET r == SyncFn(Globals, engineErr)
        IN /\ last' = [op |-> "Sync", err |-> r.err, engine |-> r.engine, before |-> Log]
           /\ UNCHANGED <<Log, serviceName, envName, ambient, heap, LOG_LEVEL, held, pc, loc>>

Next ==
    \/ Initialize
    \/ GetModuleLogger
    \/ Flush

Spec == Init /\ [][Next]_vars

----------------------------------------------------------------------------
\* Concurrent callers: goroutines running Init and New with no
\* synchronisation, one source line (or one memory word) per step.

\* The calls the goroutines make: Init("Error ", "api ", "prod"),
\* Init("", "", ""), Init("loud", "", "prod").
ConcInits ==
    { << <<"E","r","r","o","r"," ">>, <<"a","p","i"," ">>, <<"p","r","o","d">> >>,
      << Empty, Empty, Empty >>,
      << <<"l","o","u","d">>, Empty, <<"p","r","o","d">> >> }

\* The four words the assignment serviceName, envName = service, env writes.
Words == {"serviceName.ptr", "serviceName.len", "envName.ptr", "envName.len"}

Locals(p, op, lazy, module, zapLevel, service, env) ==
    [op |-> op, calls |-> loc[p].calls + 1, lazy |-> lazy, module |-> module, zapLevel |-> zapLevel,
     service |-> service, env |-> env, pend |-> {}, z |-> NilAddr, l |-> NilAddr,
     ret |-> NilAddr, err |-> NilErr, installed |-> FALSE]

\* The goroutines may start another call.
MayCall == loc["g1"].calls + loc["g2"].calls < MaxConcCalls

\* Lines 40-59 of Init: locals only (and the environment); a level that
\* does not parse returns at once. `back` is where the caller goes on.
EnterInit(p, op, lazy, module, level, service, env, back) ==
    LET zapLevel == ParseLevel(level, LOG_LEVEL)
        frame == Locals(p, op, lazy, module, zapLevel, ResolveService(service), ResolveEnv(env))
    IN IF zapLevel = NoLevel
       THEN /\ loc' = [loc EXCEPT ![p] = [frame EXCEPT !.err = IF lazy THEN NilErr ELSE InvalidLevelErr]]
            /\ pc' = [pc EXCEPT ![p] = back]
       ELSE /\ loc' = [loc EXCEPT ![p] = [frame EXCEPT !.pend = Words]]
            /\ pc' = [pc EXCEPT ![p] = "store"]

\* A goroutine calls Init(level, service, env).
CallInit(p) ==
    /\ pc[p] = "idle"
    /\ MayCall
    /\ \E c \in ConcInits : EnterInit(p, "Init", FALSE, Empty, c[1], c[2], c[3], "idle")
    /\ UNCHANGED <<Log, serviceName, envName, ambient, heap, LOG_LEVEL, held, last>>

\* Line 61, one word at a time, in any order.
StoreWord(p) ==
    /\ pc[p] = "store"
    /\ \E w \in loc[p].pend :
        /\ serviceName' = IF w = "serviceName.ptr" THEN [serviceName EXCEPT !.ptr = loc[p].service]
                           ELSE IF w = "serviceName.len" THEN [serviceName EXCEPT !.len = loc[p].service]
                           ELSE serviceName
        /\ envName' = IF w = "envName.ptr" THEN [envName EXCEPT !.ptr = loc[p].env]
                       ELSE IF w = "envName.len" THEN [envName EXCEPT !.len = loc[p].env]
                       ELSE envName
        /\ loc' = [loc EXCEPT ![p].pend = @ \ {w}]
        /\ pc' = [pc EXCEPT ![p] = IF loc[p].pend = {w} THEN "build" ELSE "store"]
    /\ UNCHANGED <<Log, ambient, heap, LOG_LEVEL, held, last>>

\* Lines 63-84: z, and l with the fields read back from the globals.
Build(p) ==
    /\ pc[p] = "build"
    /\ Room(2)
    /\ LET b == BuildLoggers(Globals, loc[p].zapLevel)
       IN /\ heap' = b.heap
          /\ loc' = [loc EXCEPT ![p].z = b.z, ![p].l = b.l]
    /\ pc' = [pc EXCEPT ![p] = "setLog"]
    /\ UNCHANGED <<Log, serviceName, envName, ambient, LOG_LEVEL, held, last>>

\* Line 87: Log = l.
SetLog(p) ==
    /\ pc[p] = "setLog"
    /\ Log' = loc[p].l
    /\ loc' = [loc EXCEPT ![p].installed = TRUE]
    /\ pc' = [pc EXCEPT ![p] = "replace"]
    /\ UNCHANGED <<serviceName, envName, ambient, heap, LOG_LEVEL, held, last>>

\* Lines 88-90: zap.ReplaceGlobals(z); return nil.
ReplaceGlobals(p) ==
    /\ pc[p] = "replace"
    /\ ambient' = loc[p].z
    /\ pc' = [pc EXCEPT ![p] = IF loc[p].lazy THEN "with" ELSE "idle"]
    /\ UNCHANGED <<Log, serviceName, envName, heap, LOG_LEVEL, held, last, loc>>

\* A goroutine calls New(module): ensureDefaultInit's test of Log (line 96)
\* and, when Log is nil, the entry into Init (line 100).
CallNew(p) ==
    /\ pc[p] = "idle"
    /\ MayCall
    /\ \E module \in Modules :
        IF Log # NilAddr
        THEN /\ loc' = [loc EXCEPT ![p] = Locals(p, "New", FALSE, module, NoLevel, Empty, Empty)]
             /\ pc' = [pc EXCEPT ![p] = "with"]
        ELSE EnterInit(p, "New", TRUE, module, defaultLevel, defaultService, defaultEnv, "with")
    /\ UNCHANGED <<Log, serviceName, envName, ambient, heap, LOG_LEVEL, held, last>>

\* Line 107: return Log.With("module", module).
WithModule(p) ==
    /\ pc[p] = "with"
    /\ IF Log = NilAddr
       THEN /\ loc' = [loc EXCEPT ![p].err = PanicNilDeref]
            /\ heap' = heap
       ELSE /\ Room(1)
            /\ LET c == With(heap, Log, << <<KeyModule, loc[p].module>> >>)
               IN /\ heap' = c.heap
                  /\ loc' = [loc EXCEPT ![p].ret = c.addr]
    /\ pc' = [pc EXCEPT ![p] = "idle"]
    /\ UNCHANGED <<Log, serviceName, envName, ambient, LOG_LEVEL, held, last>>

NextConc ==
    \E p \in Procs :
        \/ CallInit(p)
        \/ StoreWord(p)
        \/ Build(p)
        \/ SetLog(p)
        \/ ReplaceGlobals(p)
        \/ CallNew(p)
        \/ WithModule(p)

SpecConc == Init /\ [][NextConc]_vars

----------------------------------------------------------------------------
\* Vocabulary of the properties, stated without the operators of the model.

\* The string is empty or holds white space only.
Blank(str) == \A i \in 1..Len(str) : str[i] \in WhiteSpace

ExpectedService(service) == IF Blank(service) THEN defaultService ELSE service

ExpectedEnv(env) == IF Blank(env) THEN defaultEnv ELSE env

\* The first non-blank of level, LOG_LEVEL, "info", without its surrounding blanks.
ExpectedLevelStr(level, envLevel) ==
    IF ~Blank(level) THEN TrimSpace(level)
    ELSE IF ~Blank(envLevel) THEN TrimSpace(envLevel)
    ELSE <<"i","n","f","o">>

\* The severity a string names, letter case ignored; NoLevel when it names none.
SeverityNamed(str) ==
    IF \E n \in LevelNames : ToLower(str) = n[2]
    THEN (CHOOSE n \in LevelNames : ToLower(str) = n[2])[1]
    ELSE NoLevel

ExpectedSeverity(level, envLevel) == SeverityNamed(ExpectedLevelStr(level, envLevel))

IdentityFields(service, env) == << <<KeyService, service>>, <<KeyEnv, env>> >>

\* The step completed a successful initialization: Init returned nil, or New
\* found Log unset and initialized it.
InitializedNow ==
    \/ last'.op = "Init" /\ last'.err = NilErr
    \/ last'.op = "New" /\ last'.before = NilAddr /\ last'.err = NilErr

----------------------------------------------------------------------------
\* C1: once set, Log carries exactly the fields service and env, with the
\* values of the last successful initialization (defaults substituted for
\* blank arguments); a re-initialization keeps nothing of the previous Log,
\* and no other call changes Log's fields.
C1_FieldsOfLastInit ==
    [][Log' # NilAddr =>
         IF last'.op = "Init" /\ last'.err = NilErr
         THEN heap'[Log'].fields = IdentityFields(ExpectedService(last'.service), ExpectedEnv(last'.env))
         ELSE IF last'.op = "New" /\ last'.before = NilAddr
         THEN heap'[Log'].fields = IdentityFields(defaultService, defaultEnv)
         ELSE Log # NilAddr /\ heap'[Log'].fields = heap[Log].fields]_vars

\* A re-initialization with another identity than the previous Log carried.
C1_Witness ==
    /\ last.op = "Init" /\ last.err = NilErr
    /\ last.before # NilAddr
    /\ heap[last.before].fields # heap[Log].fields
    /\ Len(heap[Log].fields) = 2

----------------------------------------------------------------------------
\* C2: an Init whose level resolves to no known severity returns the
\* invalid-level error and changes nothing: not Log, not serviceName and
\* envName, not the ambient logger, not any logger object; and Init returns
\* that error for no other level.
C2_InvalidLevelChangesNothing ==
    [][last'.op = "Init" =>
         IF ExpectedSeverity(last'.level, LOG_LEVEL) = NoLevel
         THEN /\ last'.err # NilErr
              /\ last'.err[1] = "invalid log level"
              /\ UNCHANGED <<Log, serviceName, envName, ambient, heap>>
         ELSE last'.err = NilErr]_vars

\* A failed Init on an initialized logger whose identity differs from the
\* failed call's arguments.
C2_Witness ==
    /\ last.op = "Init" /\ last.err # NilErr
    /\ Log # NilAddr
    /\ StrVal(serviceName) # ExpectedService(last.service)
    /\ StrVal(envName) # ExpectedEnv(last.env)

\* C3: New on an unset Log never fails and never returns nil, whatever
\* LOG_LEVEL holds: it sets Log by Init("info", "unknown-service", "dev") and
\* returns a logger with service, env at their defaults, module as given, at
\* minimum severity info.
C3_LazyDefaultInit ==
    (last.op = "New" /\ last.before = NilAddr) =>
        /\ last.err = NilErr
        /\ last.ret # NilAddr
        /\ Log # NilAddr
        /\ heap[Log].fields = IdentityFields(defaultService, defaultEnv)
        /\ heap[Log].level = "info"
        /\ heap[last.ret].fields = IdentityFields(defaultService, defaultEnv) \o << <<KeyModule, last.module>> >>
        /\ heap[last.ret].level = "info"

\* New("http") before any successful Init, with LOG_LEVEL unparseable.
C3_Witness ==
    /\ last.op = "New" /\ last.before = NilAddr
    /\ last.module = <<"h","t","t","p">>
    /\ LOG_LEVEL = <<"o","f","f">>
    /\ last.ret # NilAddr

\* C4: a successful Init installs the severity named, letter case ignored,
\* by the first non-blank of the trimmed level argument, the trimmed
\* LOG_LEVEL and "info"; when that string names no severity the call fails,
\* also when the argument is invalid and LOG_LEVEL is valid.
C4_LevelResolution ==
    last.op = "Init" =>
        IF last.err = NilErr
        THEN /\ heap[Log].level = ExpectedSeverity(last.level, LOG_LEVEL)
             /\ heap[ambient].level = ExpectedSeverity(last.level, LOG_LEVEL)
             /\ heap[Log].level # NoLevel
        ELSE ExpectedSeverity(last.level, LOG_LEVEL) = NoLevel

\* A blank level argument resolved from LOG_LEVEL = " DEBUG".
C4_Witness ==
    /\ last.op = "Init" /\ last.err = NilErr
    /\ last.level = <<" ">>
    /\ LOG_LEVEL = <<" ","D","E","B","U","G">>
    /\ heap[Log].level = "debug"

\* C5: Sync never changes Log (nor any other global); it returns nil without
\* calling the engine when Log is unset, nil when the engine's flush returns
\* nil or an error that is EPIPE, and the engine's error itself otherwise.
C5_SyncOutcomes ==
    [][last'.op = "Sync" =>
         /\ UNCHANGED <<Log, serviceName, envName, ambient, heap>>
         /\ IF Log = NilAddr
            THEN last'.engine = NotCalled /\ last'.err = NilErr
            ELSE /\ last'.engine \in SyncOutcomes
                 /\ IF last'.engine = NilErr THEN last'.err = NilErr
                    ELSE IF \E i \in 1..Len(last'.engine) : last'.engine[i] = "EPIPE"
                    THEN last'.err = NilErr
                    ELSE last'.err = last'.engine]_vars

\* A flush that failed with a wrapped EPIPE and returned nil.
C5_Witness ==
    /\ last.op = "Sync"
    /\ last.engine = <<"sync /dev/stdout", "EPIPE">>
    /\ last.err = NilErr
    /\ Log # NilAddr

\* C6: on a set Log, New(m) returns a new logger with Log's configuration
\* and Log's fields followed by the one field module = m, m verbatim, and
\* changes neither Log, nor the object Log names, nor serviceName, envName
\* and the ambient logger.
C6_NewOnSetLog ==
    [][(last'.op = "New" /\ last'.before # NilAddr) =>
         /\ last'.err = NilErr
         /\ UNCHANGED <<Log, serviceName, envName, ambient>>
         /\ \A a \in DOMAIN heap : heap'[a] = heap[a]
         /\ last'.ret \in DOMAIN heap'
         /\ heap'[last'.ret].fields = heap[Log].fields \o << <<KeyModule, last'.module>> >>
         /\ Config(heap'[last'.ret]) = Config(heap[Log])]_vars

\* New("") on a set Log: the module field holds the empty string.
C6_Witness ==
    /\ last.op = "New" /\ last.before # NilAddr
    /\ last.module = Empty
    /\ last.ret # NilAddr
    /\ heap[last.ret].fields[3] = <<KeyModule, Empty>>

\* C7: after a successful Init the service field is "unknown-service" when
\* the service argument is blank and the argument itself otherwise, the env
\* field is "dev" when the env argument is blank and the argument itself
\* otherwise; Init("", "", "") with LOG_LEVEL unset gives both defaults at
\* severity info.
C7_IdentityDefaults ==
    (last.op = "Init" /\ last.err = NilErr) =>
        /\ FieldValues(heap[Log], KeyService) = {ExpectedService(last.service)}
        /\ FieldValues(heap[Log], KeyEnv) = {ExpectedEnv(last.env)}
        /\ StrVal(serviceName) = ExpectedService(last.service)
        /\ StrVal(envName) = ExpectedEnv(last.env)
        /\ (last.level = Empty /\ last.service = Empty /\ last.env = Empty /\ LOG_LEVEL = Empty) =>
               /\ heap[Log].fields = IdentityFields(defaultService, defaultEnv)
               /\ heap[Log].level = "info"

\* A blank, non-empty service argument with a given env argument.
C7_Witness ==
    /\ last.op = "Init" /\ last.err = NilErr
    /\ last.service = <<" ">>
    /\ last.env = <<"p","r","o","d">>
    /\ heap[Log].fields = IdentityFields(defaultService, <<"p","r","o","d">>)

\* C8: Log and the ambient logger are replaced together, by a successful
\* initialization and by nothing else, and the ambient logger has the
\* configuration (severity, encoder, sink, options) of Log.
C8_AmbientFollowsLog ==
    [][/\ (Log' = NilAddr) = (ambient' = NilAddr)
       /\ Log' # NilAddr => Config(heap'[ambient']) = Config(heap'[Log'])
       /\ (ambient' # ambient) = (Log' # Log)
       /\ ambient' # ambient => InitializedNow
       /\ InitializedNow => ambient' \notin DOMAIN heap]_vars

\* A re-initialization that changed the severity of both.
C8_Witness ==
    /\ last.op = "Init" /\ last.err = NilErr
    /\ last.before # NilAddr
    /\ heap[last.before].level # heap[Log].level
    /\ heap[ambient].level = heap[Log].level

\* C9: a logger New returned keeps its fields and its severity through every
\* later call, re-initializations included; a logger New returns carries
\* the identity and severity Log has at that call; no returned logger
\* carries more than its own module field.
C9_ReturnedLoggersAreSnapshots ==
    [][/\ \A a \in held : a \in held' /\ a \in DOMAIN heap' /\ heap'[a] = heap[a]
       /\ \A a \in held' \ held :
             /\ a = last'.ret
             /\ SubSeq(heap'[a].fields, 1, 2) = heap'[Log'].fields
             /\ heap'[a].level = heap'[Log'].level
       /\ \A a \in held' :
             /\ a # Log' /\ a # ambient'
             /\ FieldKeys(heap'[a]) = <<KeyService, KeyEnv, KeyModule>>]_vars

\* Two returned loggers, one from before a re-initialization and one from
\* after it, with different identities, severities and modules.
C9_Witness ==
    \E a, b \in held :
        /\ a < Log /\ Log < b
        /\ heap[a].fields[1] # heap[b].fields[1]
        /\ heap[a].fields[3] # heap[b].fields[3]
        /\ heap[a].level # heap[b].level
        /\ heap[b].level = heap[Log].level

----------------------------------------------------------------------------
\* Concurrent callers (SpecConc).

\* The goroutine's current or last call has executed Log = l.
Installed(p) == loc[p].op # "none" /\ loc[p].installed

\* No goroutine but p has made a call.
Alone(p) == \A q \in Procs \ {p} : loc[q].calls = 0

AllReturned == \A p \in Procs : pc[p] = "idle"

\* C10 as claimed: under every interleaving, each value installed as Log has
\* severity, service and env of the one call that installed it, and once
\* all calls have returned serviceName, envName and the ambient logger
\* belong to the same call as Log.
C10_InstalledByOneCall ==
    /\ \A p \in Procs : Installed(p) =>
          /\ heap[loc[p].l].level = loc[p].zapLevel
          /\ heap[loc[p].l].fields = IdentityFields(loc[p].service, loc[p].env)
    /\ (AllReturned /\ Log # NilAddr) =>
          /\ heap[Log].fields = IdentityFields(StrVal(serviceName), StrVal(envName))
          /\ ambient # NilAddr
          /\ Config(heap[ambient]) = Config(heap[Log])

\* C10 amended: under every interleaving, each value installed as Log has
\* the severity of the call that installed it and exactly the fields service
\* and env; their values, and - once all calls have returned - serviceName,
\* envName and the ambient logger, belong to the same call as Log when no
\* other goroutine has made a call.
C10_SeverityByOneCall ==
    /\ \A p \in Procs : Installed(p) =>
          /\ heap[loc[p].l].level = loc[p].zapLevel
          /\ FieldKeys(heap[loc[p].l]) = <<KeyService, KeyEnv>>
          /\ Alone(p) => heap[loc[p].l].fields = IdentityFields(loc[p].service, loc[p].env)
    /\ (AllReturned /\ Log # NilAddr) =>
          /\ ambient # NilAddr
          /\ (\E p \in Procs : Alone(p)) =>
                /\ heap[Log].fields = IdentityFields(StrVal(serviceName), StrVal(envName))
                /\ Config(heap[ambient]) = Config(heap[Log])

\* Two goroutines have both installed a logger, at different severities, and
\* one of the loggers carries the other call's service.
C10_Witness ==
    \E p \in Procs, q \in Procs :
        /\ p # q /\ Installed(p) /\ Installed(q)
        /\ loc[p].zapLevel # loc[q].zapLevel
        /\ loc[p].service # loc[q].service
        /\ heap[loc[p].l].level = loc[p].zapLevel
        /\ heap[loc[p].l].fields[1] = <<KeyService, loc[q].service>>

\* A string read back torn ends up as a field of Log.
TornFieldInstalled == Log # NilAddr /\ \E i \in 1..2 : heap[Log].fields[i][2] = Torn

====
